---- MODULE Spec2Model ----
(***************************************************************************)
(* State machine of src/index.js: an Express API that mirrors two JSON     *)
(* files (data/products.json, data/orders.json) in memory, serves derived  *)
(* views of them and accepts order submissions.                            *)
(*                                                                         *)
(* One action per request handler; each action is the whole handler.       *)
(* Node runs handlers to completion one at a time (no await in any of      *)
(* them), so handlers never interleave.                                     *)
(***************************************************************************)
EXTENDS Integers, Sequences, FiniteSets, TLC

(***************************************************************************)
(* Bounds of the model.                                                    *)
(***************************************************************************)
\* The clock (Date.now(), in milliseconds past the first request) runs 0..MaxClock.
MaxClock == 1
\* POST /api/orders is explored while the order list is shorter than this.
MaxOrders == 2
\* Longest product array of the catalogue specification.
MaxProducts == 3

(***************************************************************************)
(* JavaScript values.  Every value is a record whose field names tell its  *)
(* type, so that values of different types are unequal, never incomparable.*)
(*   [u]   undefined        [z]   null          [nan] NaN                  *)
(*   [n]   number           [b]   boolean                                  *)
(*   [s]   string of the order side (a TLA+ string)                        *)
(*   [cs]  string of the product side, as its sequence of code points      *)
(*         (the category slug inspects it character by character)          *)
(*   [a]   array            [o,p] object: own properties and prototype     *)
(***************************************************************************)
Undefined == [u |-> 0]
Null == [z |-> 0]
NaN == [nan |-> 0]
Num(k) == [n |-> k]
Bool(v) == [b |-> v]
Str(t) == [s |-> t]
CStr(codes) == [cs |-> codes]
Arr(elems) == [a |-> elems]
\* Object.prototype: the prototype of every object JSON.parse or a literal creates.
ObjectPrototype == [std |-> 0]
Obj(props) == [o |-> props, p |-> ObjectPrototype]

IsArray(v) == "a" \in DOMAIN v
IsObject(v) == "o" \in DOMAIN v

\* !v is true exactly for these values.
Falsy(v) ==
    \/ v \in {Undefined, Null, NaN, Bool(FALSE), Num(0)}
    \/ "s" \in DOMAIN v /\ v.s = ""
    \/ "cs" \in DOMAIN v /\ v.cs = <<>>

\* v[k] for a non-nullish v: an own property, else one inherited from the
\* prototype (an object JSON.parse made has Object.prototype above it, which
\* has none of the keys used here); arrays and primitives have none of them.
Get(v, k) ==
    IF IsObject(v)
    THEN IF k \in DOMAIN v.o THEN v.o[k]
         ELSE IF IsObject(v.p) /\ k \in DOMAIN v.p.o THEN v.p.o[k]
         ELSE Undefined
    ELSE Undefined

\* Object.assign(target, source): every own key of source is Set on target.
\* Set of "__proto__" runs the setter inherited from Object.prototype, which
\* replaces target's prototype when the value is an object or null and does
\* nothing otherwise; it never creates an own property.
ObjectAssign(target, source) ==
    LET keys == DOMAIN source.o \ {"__proto__"}
        own == [k \in DOMAIN target.o \cup keys |->
                   IF k \in keys THEN source.o[k] ELSE target.o[k]]
        proto == IF "__proto__" \in DOMAIN source.o
                    /\ (IsObject(source.o["__proto__"]) \/ source.o["__proto__"] = Null)
                 THEN source.o["__proto__"]
                 ELSE target.p
    IN [o |-> own, p |-> proto]

(***************************************************************************)
(* JSON text.  A text is [json |-> v] when it is the JSON notation of v,   *)
(* [empty |-> 0] when it has no characters, [malformed |-> 0] otherwise.   *)
(***************************************************************************)
EmptyText == [empty |-> 0]
MalformedText == [malformed |-> 0]

\* What JSON notation keeps of an object: its own properties whose value is
\* not undefined. The prototype and what is inherited from it are not written.
OwnOnly(v) ==
    IF IsObject(v)
    THEN Obj([k \in {j \in DOMAIN v.o : v.o[j] # Undefined} |-> v.o[k]])
    ELSE v

\* JSON.stringify(v): an array is written element by element.
JSONStringify(v) ==
    [json |-> IF IsArray(v)
              THEN Arr([i \in 1..Len(v.a) |-> OwnOnly(v.a[i])])
              ELSE OwnOnly(v)]

\* JSON.parse(text), for a text it accepts.
JSONParse(text) == text.json
\* JSON.parse throws a SyntaxError on every other text.
JSONParseThrows(text) == "json" \notin DOMAIN text

(***************************************************************************)
(* Files.  A path holds [missing |-> 0], [unreadable |-> 0] (it exists and *)
(* cannot be read) or [text |-> t].                                        *)
(***************************************************************************)
Missing == [missing |-> 0]
Unreadable == [unreadable |-> 0]
File(t) == [text |-> t]

readJson(file) ==
    IF "text" \notin DOMAIN file
    THEN Arr(<<>>)                          \* readFileSync threw
    ELSE LET raw == IF file.text = EmptyText THEN JSONStringify(Arr(<<>>)) ELSE file.text
         IN IF JSONParseThrows(raw) THEN Arr(<<>>) ELSE JSONParse(raw)

\* How a call of fs.writeFileSync can end: it returns, it throws before the
\* file is opened (no permission, no directory, read-only file system), or it
\* throws after the file was opened, which truncated it, with nothing or with
\* only a part of the text written (disk full, I/O error).
WriteOutcomes == {"written", "not_opened", "truncated", "partial"}

WriteFileSync(file, text, outcome) ==
    CASE outcome = "written" -> [file |-> File(text), threw |-> FALSE]
      [] outcome = "not_opened" -> [file |-> file, threw |-> TRUE]
      [] outcome = "truncated" -> [file |-> File(EmptyText), threw |-> TRUE]
      [] outcome = "partial" -> [file |-> File(MalformedText), threw |-> TRUE]

\* writeJson calling writeFileSync a second time when the first call threw.
writeJson_Retry(file, data, outcome) ==
    LET w == WriteFileSync(file, JSONStringify(data), outcome)
    IN IF w.threw
       THEN [file |-> File(JSONStringify(data)), calls |-> 2, errors |-> 1]
       ELSE [file |-> w.file, calls |-> 1, errors |-> 0]

\* writeJson: one call of writeFileSync; what it throws is caught and logged.
\* The result holds the file afterwards, the number of writeFileSync calls and
\* the number of console.error lines.
writeJson(file, data, outcome) ==
    LET w == WriteFileSync(file, JSONStringify(data), outcome)
    IN [file |-> w.file, calls |-> 1, errors |-> IF w.threw THEN 1 ELSE 0]

(***************************************************************************)
(* State.                                                                  *)
(***************************************************************************)
VARIABLES
    productsFile,   \* data/products.json on disk
    ordersFile,     \* data/orders.json on disk
    products,       \* let products
    orders,         \* let orders
    clock,          \* the system clock, in milliseconds
    req,            \* the request handled last: [route, arg]
    resp,           \* its response: [status, body]
    fsCalls,        \* writeFileSync calls made while handling it
    errLog          \* console.error lines printed while handling it

vars == <<productsFile, ordersFile, products, orders, clock, req, resp, fsCalls, errLog>>

Request(route, arg) == [route |-> route, arg |-> arg]
\* res.status(code).json(v)
JsonResponse(code, v) == [status |-> code, body |-> JSONStringify(v)]
\* A handler that throws: Express's default error handler answers 500.
ErrorResponse == [status |-> 500, body |-> [html |-> 0]]
ErrorBody(message) == Obj([error |-> Str(message)])

(***************************************************************************)
(* POST /api/orders                                                        *)
(***************************************************************************)
\* `order-${Date.now()}`
OrderId(t) == Str("order-" \o ToString(t))

\* new Date(t).toISOString(), for the first second of the epoch.
ToISOString(t) ==
    Str("1970-01-01T00:00:00."
        \o (IF t < 10 THEN "00" ELSE IF t < 100 THEN "0" ELSE "")
        \o ToString(t) \o "Z")

\* The first argument of Object.assign.
DefaultOrder(id, now) ==
    Obj([id |-> id, status |-> Str("processing"), createdAt |-> now,
         updatedAt |-> now, isViewed |-> Bool(FALSE)])

\* The check without its last disjunct: an empty items array passes.
IsInvalidPayload_NoLengthCheck(body) ==
    \/ Falsy(body)
    \/ ~IsArray(Get(body, "items"))

\* The check with !body.items for !Array.isArray(body.items): any truthy
\* items passes.
IsInvalidPayload_Truthy(body) ==
    \/ Falsy(body)
    \/ Falsy(Get(body, "items"))
    \/ IsArray(Get(body, "items")) /\ Len(Get(body, "items").a) = 0

\* !body || !Array.isArray(body.items) || body.items.length === 0
IsInvalidPayload(body) ==
    \/ Falsy(body)
    \/ ~IsArray(Get(body, "items"))
    \/ Len(Get(body, "items").a) = 0

\* list.push(x) for list.unshift(x)
Unshift_Push(list, x) == Arr(Append(list.a, x))

\* list = [x] for list.unshift(x)
Unshift_Replace(list, x) == Arr(<<x>>)

\* list.unshift(x)
Unshift(list, x) == Arr(<<x>> \o list.a)

\* The handler, for a request body. The environment decides the milliseconds
\* dt that pass between Date.now() and new Date(), and how the file write ends.
PostOrders(body) ==
    /\ req' = Request("POST /api/orders", body)
    /\ UNCHANGED <<products, productsFile>>
    /\ IF IsInvalidPayload(body)
       THEN /\ resp' = JsonResponse(400, ErrorBody("Invalid order payload"))
            /\ fsCalls' = 0 /\ errLog' = 0
            /\ UNCHANGED <<orders, ordersFile, clock>>
       ELSE \E dt \in 0..(MaxClock - clock) :
            LET id == OrderId(clock)
                now == ToISOString(clock + dt)
                newOrder == ObjectAssign(DefaultOrder(id, now), body)
            IN /\ dt <= 1
               /\ clock' = clock + dt
               /\ IF IsArray(orders)
                  THEN /\ Len(orders.a) < MaxOrders
                       /\ \E outcome \in WriteOutcomes :
                          LET list == Unshift(orders, newOrder)
                              w == writeJson(ordersFile, list, outcome)
                          IN /\ orders' = list
                             /\ ordersFile' = w.file
                             /\ fsCalls' = w.calls
                             /\ errLog' = w.errors
                             /\ resp' = JsonResponse(201, newOrder)
                  ELSE \* orders.unshift is not a function: TypeError
                       /\ resp' = ErrorResponse
                       /\ fsCalls' = 0 /\ errLog' = 0
                       /\ UNCHANGED <<orders, ordersFile>>

\* Time passes between two requests.
Tick ==
    /\ clock < MaxClock
    /\ clock' = clock + 1
    /\ UNCHANGED <<productsFile, ordersFile, products, orders, req, resp, fsCalls, errLog>>

(***************************************************************************)
(* GET /api/statistics                                                     *)
(***************************************************************************)
\* v.length, for a non-nullish v: a plain object has none.
Length(v) == IF IsArray(v) THEN Num(Len(v.a)) ELSE Undefined

\* The strings of the model that Number() reads as a number.
NumericStrings == ("" :> 0) @@ ("7" :> 7)

\* Number(v). The arrays of the model hold objects, which Number() reads as
\* NaN unless the array is empty.
ToNumber(v) ==
    CASE "n" \in DOMAIN v -> v
      [] "b" \in DOMAIN v -> Num(IF v.b THEN 1 ELSE 0)
      [] "z" \in DOMAIN v -> Num(0)
      [] "s" \in DOMAIN v ->
            IF v.s \in DOMAIN NumericStrings THEN Num(NumericStrings[v.s]) ELSE NaN
      [] "a" \in DOMAIN v -> IF v.a = <<>> THEN Num(0) ELSE NaN
      [] OTHER -> NaN

\* x || 0
OrZero(x) == IF Falsy(x) THEN Num(0) ELSE x

\* list.reduce((sum, o) => sum + (Number(o.total) || 0), 0), from element i on.
RECURSIVE ReduceSales(_, _, _)
ReduceSales(list, i, sum) ==
    IF i > Len(list) THEN sum
    ELSE ReduceSales(list, i + 1, sum + OrZero(ToNumber(Get(list[i], "total"))).n)

\* list.filter(o => o.status === 'processing').length
CountProcessing(list) ==
    Len(SelectSeq(list, LAMBDA o : Get(o, "status") = Str("processing")))

GetStatistics ==
    /\ req' = Request("GET /api/statistics", Undefined)
    /\ resp' = IF products = Null \/ ~IsArray(orders)
               THEN ErrorResponse   \* .length of null, or .reduce is not a function
               ELSE JsonResponse(200,
                        Obj([totalProducts |-> Length(products),
                             totalOrders |-> Length(orders),
                             totalSales |-> Num(ReduceSales(orders.a, 1, 0)),
                             pendingOrders |-> Num(CountProcessing(orders.a))]))
    /\ fsCalls' = 0 /\ errLog' = 0
    /\ UNCHANGED <<productsFile, ordersFile, products, orders, clock>>

(***************************************************************************)
(* GET /api/categories                                                     *)
(***************************************************************************)
\* "Uncategorized"
Uncategorized == <<85, 110, 99, 97, 116, 101, 103, 111, 114, 105, 122, 101, 100>>

\* p.category || "Uncategorized"
CategoryName(p) ==
    IF Falsy(Get(p, "category")) THEN CStr(Uncategorized) ELSE Get(p, "category")

\* .toLowerCase(), on the ASCII letters
ToLowerCase(codes) ==
    [i \in 1..Len(codes) |-> IF codes[i] \in 65..90 THEN codes[i] + 32 ELSE codes[i]]

\* A character of [a-z0-9؀-ۿ]
SlugChar(c) == c \in 97..122 \/ c \in 48..57 \/ c \in 1536..1791

\* codes without its longest prefix of characters outside the class
RECURSIVE SkipRun(_)
SkipRun(codes) ==
    IF codes = <<>> \/ SlugChar(Head(codes)) THEN codes ELSE SkipRun(Tail(codes))

\* .replace(/[^a-z0-9؀-ۿ]+/g, "-")
RECURSIVE ReplaceRuns(_)
ReplaceRuns(codes) ==
    IF codes = <<>> THEN <<>>
    ELSE IF SlugChar(Head(codes)) THEN <<Head(codes)>> \o ReplaceRuns(Tail(codes))
    ELSE <<45>> \o ReplaceRuns(SkipRun(codes))

\* .replace(/(^-|-$)/g, "")
TrimHyphens(codes) ==
    LET t == IF codes # <<>> /\ Head(codes) = 45 THEN Tail(codes) ELSE codes
    IN IF t # <<>> /\ t[Len(t)] = 45 THEN SubSeq(t, 1, Len(t) - 1) ELSE t

\* The id of a category name (String(name) of a string is the string).
Slug(name) == CStr(TrimHyphens(ReplaceRuns(ToLowerCase(name.cs))))

\* { id, name, description: "", image: null }
CategoryEntry(name) ==
    Obj([id |-> Slug(name), name |-> name, description |-> CStr(<<>>), image |-> Null])

\* A Map keyed by the slug of the name instead of the name
MapHas_BySlug(map, name) == \E j \in 1..Len(map) : Slug(map[j].key) = Slug(name)

\* map.has(name), the Map being the sequence of its entries in insertion order
MapHas(map, name) == \E j \in 1..Len(map) : map[j].key = name

\* map.set(name, entry) for a key the Map does not hold
MapSet(map, name, entry) == Append(map, [key |-> name, value |-> entry])

\* products.forEach(...), from element i on
RECURSIVE ForEachProduct(_, _, _)
ForEachProduct(list, i, map) ==
    IF i > Len(list) THEN map
    ELSE LET name == CategoryName(list[i])
         IN ForEachProduct(list, i + 1,
                IF MapHas(map, name) THEN map ELSE MapSet(map, name, CategoryEntry(name)))

\* Array.from(map.values())
MapValues(map) == Arr([j \in 1..Len(map) |-> map[j].value])

GetCategories ==
    /\ req' = Request("GET /api/categories", Undefined)
    /\ resp' = IF IsArray(products)
               THEN JsonResponse(200, MapValues(ForEachProduct(products.a, 1, <<>>)))
               ELSE ErrorResponse   \* products.forEach is not a function
    /\ fsCalls' = 0 /\ errLog' = 0
    /\ UNCHANGED <<productsFile, ordersFile, products, orders, clock>>

(***************************************************************************)
(* The other routes                                                        *)
(***************************************************************************)
GetHealth ==
    /\ req' = Request("GET /api/health", Undefined)
    /\ resp' = JsonResponse(200, Obj([status |-> Str("ok"),
                                      message |-> Str("Pharmacy Admin API is running")]))
    /\ fsCalls' = 0 /\ errLog' = 0
    /\ UNCHANGED <<productsFile, ordersFile, products, orders, clock>>

GetApiRoot ==
    /\ req' = Request("GET /api", Undefined)
    /\ resp' = JsonResponse(200, Obj([message |-> Str("API root works")]))
    /\ fsCalls' = 0 /\ errLog' = 0
    /\ UNCHANGED <<productsFile, ordersFile, products, orders, clock>>

GetProducts ==
    /\ req' = Request("GET /api/products", Undefined)
    /\ resp' = JsonResponse(200, products)
    /\ fsCalls' = 0 /\ errLog' = 0
    /\ UNCHANGED <<productsFile, ordersFile, products, orders, clock>>

\* String(v), for a one-digit number or a string
ToStringValue(v) ==
    IF "n" \in DOMAIN v THEN CStr(<<48 + v.n>>) ELSE v

\* products.find((p) => String(p.id) === String(id)): the index of the first
\* match, 0 when there is none
FindIndex(list, id) ==
    LET hits == {i \in 1..Len(list) : ToStringValue(Get(list[i], "id")) = ToStringValue(id)}
    IN IF hits = {} THEN 0 ELSE CHOOSE i \in hits : \A j \in hits : i <= j

GetProductById(id) ==
    /\ req' = Request("GET /api/products/:id", id)
    /\ resp' = IF ~IsArray(products)
               THEN ErrorResponse   \* products.find is not a function
               ELSE IF FindIndex(products.a, id) = 0
               THEN JsonResponse(404, ErrorBody("Product not found"))
               ELSE JsonResponse(200, products.a[FindIndex(products.a, id)])
    /\ fsCalls' = 0 /\ errLog' = 0
    /\ UNCHANGED <<productsFile, ordersFile, products, orders, clock>>

ApiNotFound ==
    /\ req' = Request("/api/*", Undefined)
    /\ resp' = JsonResponse(404, ErrorBody("API route not found"))
    /\ fsCalls' = 0 /\ errLog' = 0
    /\ UNCHANGED <<productsFile, ordersFile, products, orders, clock>>

FallbackNotFound ==
    /\ req' = Request("*", Undefined)
    /\ resp' = JsonResponse(404, ErrorBody("Not found"))
    /\ fsCalls' = 0 /\ errLog' = 0
    /\ UNCHANGED <<productsFile, ordersFile, products, orders, clock>>

(***************************************************************************)
(* Inputs: what the files hold at startup and what the requests carry.     *)
(***************************************************************************)
Item(k) == Obj([id |-> Num(k), qty |-> Num(2)])

\* Request bodies that the handler turns down: none (undefined), {} (no body
\* under Express 4), items that is no array, no item, a JSON array.
InvalidBodies ==
    { Undefined,
      Obj(<<>>),
      Obj([items |-> Str("abc"), total |-> Num(5)]),
      Obj([items |-> Arr(<<>>), total |-> Num(5)]),
      Arr(<<Item(1)>>) }

\* Request bodies with items: alone, with a total, with "__proto__".
ItemBodies ==
    { Obj([items |-> Arr(<<Item(1)>>)]),
      Obj([items |-> Arr(<<Item(1), Item(2)>>), total |-> Num(5)]),
      Obj([items |-> Arr(<<Item(1)>>), __proto__ |-> Obj([total |-> Num(9)])]) }

\* Request bodies with a total that is no number, with keys the server fills
\* in, with a "__proto__" that is no object.
OtherBodies ==
    { Obj([items |-> Arr(<<Item(1)>>), total |-> Bool(TRUE)]),
      Obj([items |-> Arr(<<Item(1)>>), total |-> Str("7"), id |-> Str("order-0")]),
      Obj([items |-> Arr(<<Item(2)>>), total |-> Str("abc"), id |-> Str("mine"),
           status |-> Str("done"), createdAt |-> Str("yesterday"),
           updatedAt |-> Str("today"), isViewed |-> Null]),
      Obj([items |-> Arr(<<Item(1)>>), __proto__ |-> Num(5)]) }

Bodies == InvalidBodies \cup ItemBodies
AllBodies == Bodies \cup OtherBodies
\* The bodies without an id key
BodiesWithoutId == {body \in AllBodies : Get(body, "id") = Undefined}

\* Records of an order file written before the process started.
StoredOrder ==
    Obj([id |-> Str("order-0"), status |-> Str("delivered"),
         items |-> Arr(<<Item(1)>>), total |-> Num(3)])
StoredWithoutItems == Obj([id |-> Str("legacy"), total |-> Str("7")])

\* What JSON.parse can return for a file: an array of records, or a value
\* that is no array.
OrderDocuments ==
    { Arr(<<>>), Arr(<<StoredOrder>>), Arr(<<StoredWithoutItems>>), Obj(<<>>), Null }

FilesOf(documents) ==
    {Missing, Unreadable, File(EmptyText), File(MalformedText)}
        \cup {File(JSONStringify(d)) : d \in documents}

OrderFiles == FilesOf(OrderDocuments)

\* Category names: "A", "a", "a b", "A  B", "a-b", " ", "Uncategorized", "".
CategoryNames ==
    { <<65>>, <<97>>, <<97, 32, 98>>, <<65, 32, 32, 66>>, <<97, 45, 98>>, <<32>>,
      Uncategorized, <<>> }

\* The product at index i of a file: its id is i, its category one of the
\* names, or absent.
ProductsAt(i) ==
    {Obj([id |-> Num(i)])}
        \cup {Obj([id |-> Num(i), category |-> CStr(c)]) : c \in CategoryNames}

\* The arrays of at most n products.
ProductArrays(n) ==
    UNION {{Arr(list) : list \in {l \in [1..k -> UNION {ProductsAt(i) : i \in 1..k}] :
                                     \A i \in 1..k : l[i] \in ProductsAt(i)}} : k \in 0..n}

\* The product files of the order specifications: a few, the orders being
\* what varies there.
FewProductDocuments ==
    { Arr(<<Obj([id |-> Num(1), category |-> CStr(<<97>>)]), Obj([id |-> Num(2)])>>),
      Obj(<<>>) }
FewProductFiles == {File(JSONStringify(d)) : d \in FewProductDocuments}

ProductIds == {CStr(<<49>>), CStr(<<57>>)}

(***************************************************************************)
(* The process: startup (lines 42-43), then one request after another.     *)
(***************************************************************************)
Startup(pf, of) ==
    /\ productsFile = pf
    /\ ordersFile = of
    /\ products = readJson(pf)
    /\ orders = readJson(of)
    /\ clock = 0
    /\ req = Request("none", Undefined)
    /\ resp = [status |-> 0, body |-> [none |-> 0]]
    /\ fsCalls = 0
    /\ errLog = 0

Init == \E pf \in FewProductFiles, of \in OrderFiles : Startup(pf, of)

PostOrdersOf(bodies) == \E body \in bodies : PostOrders(body)

PostOrdersAny == PostOrdersOf(Bodies)

GetProductByIdAny == \E id \in ProductIds : GetProductById(id)

Next ==
    \/ PostOrdersAny
    \/ Tick
    \/ GetStatistics
    \/ GetCategories
    \/ GetProducts
    \/ GetProductByIdAny
    \/ GetHealth
    \/ GetApiRoot
    \/ ApiNotFound
    \/ FallbackNotFound

Spec == Init /\ [][Next]_vars

\* The same process, its requests carrying any of the bodies.
PostOrdersAnyBody == PostOrdersOf(AllBodies)

NextAnyBody ==
    \/ PostOrdersAnyBody
    \/ Tick
    \/ GetStatistics
    \/ GetCategories
    \/ GetProducts
    \/ GetProductByIdAny
    \/ GetHealth
    \/ GetApiRoot
    \/ ApiNotFound
    \/ FallbackNotFound

SpecAnyBody == Init /\ [][NextAnyBody]_vars

\* The elements of a collection that is an array; none otherwise.
Elements(v) == IF IsArray(v) THEN v.a ELSE <<>>

\* The process started on an empty order list, no request body carrying an id.
InitEmptyOrders ==
    \E pf \in FewProductFiles :
    \E of \in {f \in OrderFiles : readJson(f) = Arr(<<>>)} : Startup(pf, of)

PostOrdersWithoutId == PostOrdersOf(BodiesWithoutId)

NextGeneratedIds ==
    \/ PostOrdersWithoutId
    \/ Tick
    \/ GetStatistics
    \/ GetCategories
    \/ GetProducts
    \/ GetProductByIdAny
    \/ GetHealth
    \/ GetApiRoot
    \/ ApiNotFound
    \/ FallbackNotFound

SpecGeneratedIds == InitEmptyOrders /\ [][NextGeneratedIds]_vars

\* The catalogue: the process started on any product file, serving the
\* routes that read the products.
InitCatalog ==
    \E pf \in FilesOf(ProductArrays(MaxProducts) \cup {Obj(<<>>), Null}) :
        Startup(pf, Missing)

NextCatalog ==
    \/ GetCategories
    \/ GetProducts
    \/ GetProductByIdAny
    \/ GetStatistics

SpecCatalog == InitCatalog /\ [][NextCatalog]_vars

(***************************************************************************)
(* Properties                                                              *)
(***************************************************************************)
PostRoute == "POST /api/orders"
\* The record a JSON response carries.
Returned == JSONParse(resp.body)

\* A body that is absent, has no items field, has items that is no array, or
\* has an empty items array.
LacksItems(body) ==
    \/ body = Undefined
    \/ body = Null
    \/ IsArray(body)
    \/ "items" \notin DOMAIN body.o
    \/ ~IsArray(body.o.items)
    \/ body.o.items.a = <<>>

\* C1: a POST /api/orders whose body is absent or has no items, items that is
\* no array or an empty items array is answered 400 {error: "Invalid order
\* payload"} and leaves the in-memory order list and the order file as they
\* were.
C1_InvalidPayloadRejected ==
    [][(req'.route = PostRoute /\ LacksItems(req'.arg) /\ PostOrders(req'.arg))
          => /\ resp'.status = 400
             /\ JSONParse(resp'.body) = Obj([error |-> Str("Invalid order payload")])
             /\ orders' = orders
             /\ ordersFile' = ordersFile
             /\ fsCalls' = 0]_vars

\* C1, its case: an invalid request was turned down while the list held orders.
C1_Witness ==
    /\ req.route = PostRoute
    /\ LacksItems(req.arg)
    /\ resp.status = 400
    /\ Len(Elements(orders)) = MaxOrders
    /\ ordersFile = File(JSONStringify(orders))

PostWithFailedWrite == req'.route = PostRoute /\ errLog' = 1 /\ PostOrders(req'.arg)

\* What C3 says besides the file: the failure is swallowed (201 with the new
\* order), the new order stays at the head of the list, the write is not tried
\* again; and the statistics are computed from the list in memory.
FailureSwallowed ==
    /\ resp'.status = 201
    /\ ~LacksItems(req'.arg)
    /\ JSONParse(resp'.body).o.items = req'.arg.o.items
    /\ Len(orders'.a) = Len(orders.a) + 1
    /\ OwnOnly(orders'.a[1]) = JSONParse(resp'.body)
    /\ SubSeq(orders'.a, 2, Len(orders'.a)) = orders.a
    /\ fsCalls' = 1

StatisticsFromMemory ==
    (req'.route = "GET /api/statistics" /\ GetStatistics /\ IsArray(products))
        => (IsArray(orders) => /\ resp'.status = 200
                               /\ JSONParse(resp'.body).o.totalOrders = Num(Len(orders.a)))

\* C3, as claimed: when the file write of a valid POST /api/orders fails, the
\* request is still answered 201 with the new order, the order stays at the
\* head of the list, the file keeps its previous content, the write is not
\* retried, and later requests work on the list in memory.
C3_FailedWriteKeepsFile ==
    [][/\ PostWithFailedWrite => (FailureSwallowed /\ ordersFile' = ordersFile)
       /\ StatisticsFromMemory]_vars

\* C3, amended: as claimed, except that the file keeps its previous content
\* only when it could not be opened; a write that fails after the file was
\* opened leaves it empty or with a part of the text, which reads back as an
\* empty list.
C3_FailedWriteSwallowed ==
    [][/\ PostWithFailedWrite
            => /\ FailureSwallowed
               /\ \/ ordersFile' = ordersFile
                  \/ /\ ordersFile' \in {File(EmptyText), File(MalformedText)}
                     /\ readJson(ordersFile') = Arr(<<>>)
       /\ StatisticsFromMemory]_vars

\* C3, its case: the write of the second order failed after the file, which
\* held the first, was opened; the statistics then count both orders.
C3_Witness ==
    /\ req.route = "GET /api/statistics"
    /\ resp.status = 200
    /\ Returned.o.totalOrders = Num(MaxOrders)
    /\ ordersFile = File(EmptyText)

\* C4, as claimed: whatever the order file held at startup, every record of
\* the in-memory order list has items, a non-empty sequence.
C4_EveryOrderHasItems ==
    \A i \in 1..Len(Elements(orders)) :
        /\ "items" \in DOMAIN orders.a[i].o
        /\ IsArray(orders.a[i].o.items)
        /\ Len(orders.a[i].o.items.a) > 0

\* Every record of a list has items, a non-empty sequence.
AllHaveItems(list) ==
    \A i \in 1..Len(Elements(list)) :
        /\ "items" \in DOMAIN list.a[i].o
        /\ IsArray(list.a[i].o.items)
        /\ Len(list.a[i].o.items.a) >= 1

\* C4, amended: the records loaded from the order file at startup are taken as
\* they are; every record a request puts into the in-memory order list has
\* items, a non-empty sequence, and once every record of the list has, every
\* record has after each later request.
C4_ItemsKeptByRequests ==
    [][/\ (orders' # orders /\ IsArray(orders'))
            => /\ Len(orders'.a) >= 1
               /\ AllHaveItems(Arr(<<orders'.a[1]>>))
       /\ AllHaveItems(orders) => AllHaveItems(orders')]_vars

\* C4, its case: the list holds a record loaded at startup under one created
\* by a request.
C4_Witness ==
    /\ req.route = PostRoute
    /\ resp.status = 201
    /\ Len(Elements(orders)) = 2
    /\ orders.a[2] = StoredOrder
    /\ OwnOnly(orders.a[1]) = Returned

\* C5: the in-memory order list only grows by prepending: a request either
\* leaves the list as it is, or is a POST /api/orders answered 201 that puts
\* the new record at index 0 above the records already there, each unchanged
\* and in the same order; and every POST answered 201 does so.
C5_ListGrowsByPrepending ==
    [][/\ orders' # orders
            => (req'.route = PostRoute /\ resp'.status = 201 /\ PostOrders(req'.arg))
       /\ (req'.route = PostRoute /\ resp'.status = 201 /\ PostOrders(req'.arg))
            => /\ IsArray(orders) /\ IsArray(orders')
               /\ Len(orders'.a) = Len(orders.a) + 1
               /\ OwnOnly(orders'.a[1]) = JSONParse(resp'.body)
               /\ \A i \in 1..Len(orders.a) : orders'.a[i + 1] = orders.a[i]]_vars

\* C5, its case: two orders were created on top of each other, the later one
\* first.
C5_Witness ==
    /\ req.route = PostRoute
    /\ resp.status = 201
    /\ Len(Elements(orders)) = 2
    /\ OwnOnly(orders.a[1]) = Returned
    /\ orders.a[2] # orders.a[1]
    /\ Get(orders.a[2], "createdAt") = ToISOString(0)

\* A file that cannot be loaded: missing, unreadable, empty or malformed.
Unloadable(file) ==
    file \in {Missing, Unreadable, File(EmptyText), File(MalformedText)}

\* C6: load never fails its caller: a file that is missing, unreadable,
\* malformed or empty loads as the empty sequence, so that the products and
\* the orders held in memory after startup are always sequences.
C6_CollectionsAreSequences ==
    /\ req.route = "none"
         => /\ Unloadable(productsFile) => products = Arr(<<>>)
            /\ Unloadable(ordersFile) => orders = Arr(<<>>)
    /\ IsArray(products)
    /\ IsArray(orders)

\* The total of an order as C7 counts it: 0 when absent or no number.
ClaimedTotal(o) ==
    IF "total" \notin DOMAIN o.o THEN 0
    ELSE IF "n" \in DOMAIN o.o.total THEN o.o.total.n
    ELSE IF "s" \in DOMAIN o.o.total /\ o.o.total.s = "7" THEN 7
    ELSE 0

RECURSIVE SumOfTotals(_)
SumOfTotals(list) ==
    IF list = <<>> THEN 0 ELSE ClaimedTotal(Head(list)) + SumOfTotals(Tail(list))

\* C7: GET /api/statistics returns the length of the product list, the length
\* of the order list, the sum of the orders' totals (0 for a total that is
\* absent or no number) and the number of orders whose status is
\* "processing".
C7_StatisticsOfTheLists ==
    req.route = "GET /api/statistics"
        => /\ resp.status = 200
           /\ IsArray(products)
           /\ IsArray(orders)
           /\ Returned = Obj([totalProducts |-> Num(Len(products.a)),
                              totalOrders |-> Num(Len(orders.a)),
                              totalSales |-> Num(SumOfTotals(orders.a)),
                              pendingOrders |->
                                  Num(Cardinality({i \in 1..Len(orders.a) :
                                        /\ "status" \in DOMAIN orders.a[i].o
                                        /\ orders.a[i].o.status = Str("processing")}))])

\* C7 on the lists the requests build from an empty or valid start, for the
\* bodies whose total is a number or absent and that carry no "__proto__":
\* there the statistics are those claimed. It bounds where C7 fails.
C7_StatisticsOfOrdinaryOrders ==
    (/\ req.route = "GET /api/statistics"
     /\ IsArray(products)
     /\ IsArray(orders)
     /\ \A i \in 1..Len(Elements(orders)) :
           /\ orders.a[i].p = ObjectPrototype
           /\ "total" \in DOMAIN orders.a[i].o => "b" \notin DOMAIN orders.a[i].o.total)
        => C7_StatisticsOfTheLists

\* The category name of a product as C8 counts it.
ClaimedName(p) ==
    IF "category" \notin DOMAIN p.o \/ p.o.category = CStr(<<>>)
    THEN CStr(Uncategorized)
    ELSE p.o.category

\* The index of the first product of the list with that name.
FirstOccurrence(list, name) ==
    CHOOSE i \in 1..Len(list) :
        /\ ClaimedName(list[i]) = name
        /\ \A j \in 1..(i - 1) : ClaimedName(list[j]) # name

\* C8: for every product sequence, GET /api/categories returns one entry for
\* each distinct category name of the products (absent or empty counting as
\* "Uncategorized"), no two with the same name, in the order in which the
\* names first occur; distinct names with the same slug are both kept.
C8_OneCategoryPerName ==
    (req.route = "GET /api/categories" /\ IsArray(products))
        => /\ resp.status = 200
           /\ IsArray(Returned)
           /\ LET out == Returned.a
                  list == products.a
              IN /\ {out[i].o.name : i \in 1..Len(out)}
                        = {ClaimedName(list[i]) : i \in 1..Len(list)}
                 /\ \A i, j \in 1..Len(out) : i # j => out[i].o.name # out[j].o.name
                 /\ \A i, j \in 1..Len(out) :
                       i < j => FirstOccurrence(list, out[i].o.name)
                                    < FirstOccurrence(list, out[j].o.name)

\* C8, its case: of three products two share a name, and the two names left
\* share a slug: two entries are returned, with the same id.
C8_Witness ==
    /\ req.route = "GET /api/categories"
    /\ IsArray(products)
    /\ Len(products.a) = 3
    /\ ClaimedName(products.a[1]) = ClaimedName(products.a[3])
    /\ Len(Returned.a) = 2
    /\ Returned.a[1].o.id = Returned.a[2].o.id
    /\ Returned.a[1].o.name # Returned.a[2].o.name

\* The keys the server fills in.
DefaultKeys == {"id", "status", "createdAt", "updatedAt", "isViewed"}

\* C9: the order created for a valid body is the defaults overlaid by the
\* body: every key of the body carries the body's value, and each of the five
\* keys the body lacks its default (id order-<millis>, status "processing",
\* isViewed false, createdAt equal to updatedAt).
C9_DefaultsOverlaidByBody ==
    (req.route = PostRoute /\ resp.status = 201)
        => LET body == req.arg.o
               created == Returned.o
           IN /\ \A k \in DOMAIN body : k \in DOMAIN created /\ created[k] = body[k]
              /\ DefaultKeys \subseteq DOMAIN created
              /\ "id" \notin DOMAIN body
                    => \E t \in 0..MaxClock : created.id = Str("order-" \o ToString(t))
              /\ "status" \notin DOMAIN body => created.status = Str("processing")
              /\ "isViewed" \notin DOMAIN body => created.isViewed = Bool(FALSE)
              /\ ("createdAt" \notin DOMAIN body /\ "updatedAt" \notin DOMAIN body)
                    => created.createdAt = created.updatedAt
              /\ created.items = body.items

\* C9 for the bodies without a "__proto__" key: there the created order is as
\* claimed. It bounds where C9 fails.
C9_DefaultsOverlaidByOrdinaryBody ==
    (req.route = PostRoute /\ resp.status = 201 /\ "__proto__" \notin DOMAIN req.arg.o)
        => C9_DefaultsOverlaidByBody

\* C10: starting from an empty order list, after POST /api/orders requests
\* whose bodies carry no id, the ids of the orders in the list are pairwise
\* distinct.
C10_GeneratedIdsDistinct ==
    \A i, j \in 1..Len(Elements(orders)) :
        i # j => Get(orders.a[i], "id") # Get(orders.a[j], "id")

====
